---- MODULE Spec2Model ----
(***************************************************************************)
(* A model of eu_lex_etl/etl.py: the marker patterns, the passage walker   *)
(* (ETL._parse_html_passages) and the batch routine (ETL.run_routine).     *)
(*                                                                         *)
(* A text is a sequence of characters, each character a one-element        *)
(* string; the three characters outside ASCII have names (NBSP, EMDASH,    *)
(* GUILLEMET).  A passage (a bs4 Tag) is a record [class, text]: class is  *)
(* a sequence of class names (a Python list), or a string (an attribute    *)
(* value that is not a list).                                              *)
(***************************************************************************)
EXTENDS Integers, Sequences, FiniteSets, TLC

\* ------------------------------------------------------------- characters

NBSP == "nbsp"
EMDASH == "emdash"
GUILLEMET == "guillemet"

Digits == {"0", "1", "2", "3", "4", "5", "6", "7", "8", "9"}

LowerLetters ==
    <<"a", "b", "c", "d", "e", "f", "g", "h", "i", "j", "k", "l", "m",
      "n", "o", "p", "q", "r", "s", "t", "u", "v", "w", "x", "y", "z">>

UpperLetters ==
    <<"A", "B", "C", "D", "E", "F", "G", "H", "I", "J", "K", "L", "M",
      "N", "O", "P", "Q", "R", "S", "T", "U", "V", "W", "X", "Y", "Z">>

\* The class [a-z] as the patterns write it.
AToZ == {LowerLetters[n] : n \in DOMAIN LowerLetters}

\* What Python's str.strip() removes and what \s matches: U+00A0 is
\* whitespace for both.
Whitespace == {" ", NBSP, "\t", "\n"}

\* re.IGNORECASE: a character is compared by its lower-case form.
Lower(c) ==
    IF \E n \in DOMAIN UpperLetters : UpperLetters[n] = c
    THEN LowerLetters[CHOOSE n \in DOMAIN UpperLetters : UpperLetters[n] = c]
    ELSE c

\* ------------------------------------------------------------------ text

\* s[a..b] as a text (empty when a > b).
Slice(s, a, b) == IF a > b THEN <<>> ELSE SubSeq(s, a, b)

RECURSIVE LStrip(_)
LStrip(s) ==
    IF s # <<>> /\ Head(s) \in Whitespace THEN LStrip(Tail(s)) ELSE s

RECURSIVE RStrip(_)
RStrip(s) ==
    IF s # <<>> /\ s[Len(s)] \in Whitespace
    THEN RStrip(Slice(s, 1, Len(s) - 1))
    ELSE s

\* str.strip()
Strip(s) == RStrip(LStrip(s))

\* re.sub(pattern="(\xa0)+", repl=" ", string=s): every maximal run of
\* U+00A0 becomes one space.
RECURSIVE SubNbsp(_)
SubNbsp(s) ==
    IF s = <<>> THEN <<>>
    ELSE IF Head(s) = NBSP
         THEN IF Len(s) > 1 /\ s[2] = NBSP
              THEN SubNbsp(Tail(s))
              ELSE <<" ">> \o SubNbsp(Tail(s))
         ELSE <<Head(s)>> \o SubNbsp(Tail(s))

StartsWith(s, prefix) ==
    /\ Len(prefix) <= Len(s)
    /\ Slice(s, 1, Len(prefix)) = prefix

\* str.replace(old, new) for a non-empty old: the occurrences of old are
\* replaced from the left, without overlap, all of them.
RECURSIVE Replace(_, _, _)
Replace(s, old, new) ==
    IF s = <<>> THEN <<>>
    ELSE IF StartsWith(s, old)
         THEN new \o Replace(Slice(s, Len(old) + 1, Len(s)), old, new)
         ELSE <<Head(s)>> \o Replace(Tail(s), old, new)

\* ------------------------------------------------- regular expressions

\* The pieces the sub-patterns are written with.
One(S) == [kind |-> "set", chars |-> S, items |-> <<>>, plus |-> FALSE]
Many(S) == [kind |-> "set", chars |-> S, items |-> <<>>, plus |-> TRUE]
GroupPlus(its) == [kind |-> "group", chars |-> {}, items |-> its, plus |-> TRUE]
EndAnchor == [kind |-> "end", chars |-> {}, items |-> <<>>, plus |-> FALSE]

Dig == Many(Digits)
Let1 == One(AToZ)
Lets == Many(AToZ)
Dot == One({"."})
Dash == One({"-"})
LPar == One({"("})
RPar == One({")"})
Spaces == Many(Whitespace)

\* Whether character c is matched by the set S under re.IGNORECASE.
CharIn(c, S) == c \in S \/ Lower(c) \in S

\* A backtracking matcher: the positions at which a match of items[k..]
\* begun at position p of s can end, in the order the engine tries them
\* (a greedy + tries the longer repetition first).
RECURSIVE MatchItems(_, _, _, _)
RECURSIVE MatchItem(_, _, _)
RECURSIVE MatchRest(_, _, _, _)

MatchItem(it, s, p) ==
    IF it.kind = "end"
    THEN IF p = Len(s) + 1 THEN <<p>> ELSE <<>>
    ELSE IF it.kind = "set"
    THEN IF p <= Len(s) /\ CharIn(s[p], it.chars)
         THEN IF it.plus
              THEN MatchItem(it, s, p + 1) \o <<p + 1>>
              ELSE <<p + 1>>
         ELSE <<>>
    ELSE \* a group repeated with +
         LET ends == MatchItems(it.items, 1, s, p)
             more[n \in 0..Len(ends)] ==
                 IF n = 0 THEN <<>>
                 ELSE more[n - 1]
                      \o (IF ends[n] > p THEN MatchItem(it, s, ends[n]) ELSE <<>>)
                      \o <<ends[n]>>
         IN  more[Len(ends)]

\* The ends of items[k + 1..] from each of the positions `ends`, in order.
MatchRest(items, k, s, ends) ==
    IF ends = <<>> THEN <<>>
    ELSE MatchItems(items, k + 1, s, Head(ends))
         \o MatchRest(items, k, s, Tail(ends))

MatchItems(items, k, s, p) ==
    IF k > Len(items) THEN <<p>>
    ELSE MatchRest(items, k, s, MatchItem(items[k], s, p))

\* ETL._ISOLATED_MARKER_PATTERNS
ISOLATED_MARKER_PATTERNS ==
    << <<GroupPlus(<<Dig, Dot>>), EndAnchor>>,                  \* ([0-9]+\.)+$
       <<GroupPlus(<<Dig, Dot>>), Dash, Let1, Dot, EndAnchor>>, \* ([0-9]+\.)+\-[a-z]\.$
       <<GroupPlus(<<Dig, Dot>>), Dash, Let1, RPar, EndAnchor>>,\* ([0-9]+\.)+\-[a-z]\)$
       <<LPar, Dig, RPar, EndAnchor>>,                          \* \([0-9]+\)$
       <<Dig, RPar, EndAnchor>>,                                \* [0-9]+\)$
       <<LPar, Lets, RPar, EndAnchor>>,                         \* \([a-z]+\)$
       <<Lets, RPar, EndAnchor>>,                               \* [a-z]+\)$
       <<Dig, Dot, EndAnchor>>,                                 \* [0-9]+\.$
       <<Lets, Dot, EndAnchor>>,                                \* [a-z]+\.$
       <<One({EMDASH}), EndAnchor>>,                            \* —$
       <<Dig, Dash, Let1, RPar, EndAnchor>>,                    \* [0-9]+\-[a-z]\)$
       <<Dig, Dash, Let1, Dot, EndAnchor>>,                     \* [0-9]+\-[a-z]\.$
       <<Lets, Dash, Let1, RPar, EndAnchor>> >>                 \* [a-z]+\-[a-z]\)$

\* A slip: the general form "12." is listed before the specific ones.
StartingPatternsGeneralFirst ==
    << <<Dig, Dot>>,
       <<Dig, Dot, Dig, Dash, Let1, Dot>>,
       <<Dig, Dot, Dig, Dash, Let1, RPar>>,
       <<Dig, Dash, Let1, Dot>>,
       <<Dig, Dash, Let1, RPar>>,
       <<Dig, Dash, Let1, Spaces>>,
       <<Dig, Let1, Dot, Spaces>>,
       <<GroupPlus(<<Dig, Dot>>)>>,
       <<LPar, Dig, RPar>>,
       <<Dig, RPar>>,
       <<LPar, Lets, RPar>>,
       <<Lets, RPar>>,
       <<Dig, Spaces>>,
       <<Lets, Dot>> >>

\* ETL._STARTING_MARKER_PATTERNS
STARTING_MARKER_PATTERNS ==
    << <<Dig, Dot, Dig, Dash, Let1, Dot>>,    \* [0-9]+\.[0-9]+\-[a-z]\.
       <<Dig, Dot, Dig, Dash, Let1, RPar>>,   \* [0-9]+\.[0-9]+\-[a-z]\)
       <<Dig, Dash, Let1, Dot>>,              \* [0-9]+\-[a-z]\.
       <<Dig, Dash, Let1, RPar>>,             \* [0-9]+\-[a-z]\)
       <<Dig, Dash, Let1, Spaces>>,           \* [0-9]+\-[a-z]\s+
       <<Dig, Let1, Dot, Spaces>>,            \* [0-9]+[a-z]\.\s+
       <<GroupPlus(<<Dig, Dot>>)>>,           \* ([0-9]+\.)+
       <<LPar, Dig, RPar>>,                   \* \([0-9]+\)
       <<Dig, RPar>>,                         \* [0-9]+\)
       <<LPar, Lets, RPar>>,                  \* \([a-z]+\)
       <<Lets, RPar>>,                        \* [a-z]+\)
       <<Dig, Dot>>,                          \* [0-9]+\.
       <<Dig, Spaces>>,                       \* [0-9]+\s+
       <<Lets, Dot>> >>                       \* [a-z]+\.

\* ETL._build_patterns_list: every sub-pattern gives two alternatives, in
\* this order: the sub-pattern at the start of the string, and the
\* sub-pattern after a leading guillemet.
BuildPatternsList(patterns_list) ==
    [n \in 1..(2 * Len(patterns_list)) |->
        IF n % 2 = 1
        THEN patterns_list[(n + 1) \div 2]
        ELSE <<One({GUILLEMET})>> \o patterns_list[n \div 2]]

\* re.Pattern.match for an alternation: the alternatives are tried in
\* order at the start of the string and the first one that matches decides;
\* the value is the length of the matched prefix (-1: no match).
RECURSIVE ReMatchFrom(_, _, _)
ReMatchFrom(alts, n, s) ==
    IF n > Len(alts) THEN -1
    ELSE LET ends == MatchItems(alts[n], 1, s, 1)
         IN  IF ends # <<>> THEN Head(ends) - 1
             ELSE ReMatchFrom(alts, n + 1, s)

ReMatch(alts, s) == ReMatchFrom(alts, 1, s)

\* ETL.isolated_marker_pattern: the alternatives of the compiled pattern
isolated_marker_pattern == BuildPatternsList(ISOLATED_MARKER_PATTERNS)

\* ETL.starting_marker_pattern: the alternatives of the compiled pattern
starting_marker_pattern == BuildPatternsList(STARTING_MARKER_PATTERNS)

\* self.isolated_marker_pattern.match(text), as a truth value
IsolatedMarkerMatch(text) == ReMatch(isolated_marker_pattern, text) >= 0

\* self.starting_marker_pattern.match(text): the length of
\* marker_match.group() (-1: no match)
StartingMarkerMatch(text) == ReMatch(starting_marker_pattern, text)

\* --------------------------------------------------------------- passages

\* The value of a passage's class attribute: kind "list" with the class
\* names as items, kind "str" (a value that is not a list) with the
\* characters of the string as items, or kind "absent" (no class attribute:
\* tag["class"] raises KeyError).
ClassList(names) == [kind |-> "list", items |-> names]
ClassStr(chars) == [kind |-> "str", items |-> chars]
ClassAbsent == [kind |-> "absent", items |-> <<>>]

P(class, text) == [class |-> class, text |-> text]

\* str.startswith on class names.  TLC's strings are atoms, so the prefix
\* relation is written out for the class names of the style sheet; a
\* one-character item of a "str" class has none of these prefixes.
ClassStartsWith(name, prefix) ==
    \/ name = prefix
    \/ <<name, prefix>> \in
         { <<"doc-ti-1", "doc-ti">>, <<"oj-doc-ti-1", "oj-doc-ti">>,
           <<"ti-section-1", "ti-section">>, <<"ti-section-2", "ti-section">>,
           <<"oj-ti-section-1", "oj-ti-section">>,
           <<"oj-ti-section-2", "oj-ti-section">> }

\* ETL._CSS_CLASSES_TO_IGNORE
CSS_CLASSES_TO_IGNORE == <<"signatory", "note">>

\* ETL.css_classes_to_ignore
css_classes_to_ignore ==
    {CSS_CLASSES_TO_IGNORE[n] : n \in DOMAIN CSS_CLASSES_TO_IGNORE}
    \cup {"oj-signatory", "oj-note"}

\* --------------------------------------------------------------- state

VARIABLES
    documents_names,  \* run_routine's argument: the labels of the batch
    web,              \* what EUR-Lex answers for each document of the batch
    rpc,              \* where run_routine is: "idle", "run", "returned", "raised"
    doc_i,            \* run_routine's loop variable i (counted from 1)
    dfs_list,         \* run_routine's dfs_list
    df,               \* what run_routine returned (<<>> until it returns)
    document_name,    \* _parse_html_passages: its first argument
    html_passages,    \* its second argument, as far as it has been read
    closed,           \* whether the end of html_passages has been read
    pc,               \* where the call is: "none", "typing", "prescan",
                      \* "loop", "returned", "raised"
    i,                \* the pre-scan's loop variable (from 1; 0: unbound)
    pos,              \* the position of the next passage either loop reads
    heading, section, article, article_subtitle, ref, prev_marker, records,
    stdout,           \* what the call printed
    error,            \* the exception that ended the call or the routine
    origin            \* history: origin[n] is the position of the passage
                      \* that records[n] was appended for

walker == <<heading, section, article, article_subtitle, ref, prev_marker, records>>
call == <<document_name, html_passages, closed, pc, i, pos, walker, stdout, error, origin>>
routine == <<documents_names, web, rpc, doc_i, dfs_list, df>>
vars == <<routine, call>>

\* A slip: the locals keep what the call before left in them.
StaleLocals ==
    [heading |-> heading, section |-> section, article |-> article,
     article_subtitle |-> article_subtitle, ref |-> ref,
     prev_marker |-> prev_marker, records |-> <<>>]

\* The locals as _parse_html_passages sets them when it is entered.
FreshLocals ==
    [heading |-> <<>>, section |-> <<>>, article |-> <<>>,
     article_subtitle |-> <<>>, ref |-> <<>>,
     prev_marker |-> FALSE, records |-> <<>>]

\* ------------------------------------------------- the walker's main loop

\* A slip: the assert is gone.
ClassIsListUnchecked(tag) == TRUE

\* type(tag["class"]) == list
ClassIsList(tag) == tag.class.kind = "list"

\* A slip: the last class of the list decides.
ClassLast(tag) == tag.class.items[Len(tag.class.items)]

\* tag["class"][0]
Class0(tag) == tag.class.items[1]

\* tag.text.strip(), then the runs of U+00A0 replaced by one space
NormText(tag) == SubNbsp(Strip(tag.text))

IsBodyClass(name) == name \in {"normal", "oj-normal"}

\* A slip: a new heading leaves the section as it was.
DocTiBranchKeepsSection(w, text) ==
    [w EXCEPT !.heading = text, !.article = <<>>,
              !.article_subtitle = <<>>, !.ref = <<>>]

\* The branch of a document title: heading and the reset below it.
DocTiBranch(w, text) ==
    [w EXCEPT !.heading = text, !.section = <<>>, !.article = <<>>,
              !.article_subtitle = <<>>, !.ref = <<>>]

\* A slip: a new section leaves the article as it was.
TiSectionBranchKeepsArticle(w, text) ==
    [w EXCEPT !.section = text, !.article_subtitle = <<>>, !.ref = <<>>]

\* The branch of a section title.
TiSectionBranch(w, text) ==
    [w EXCEPT !.section = text, !.article = <<>>,
              !.article_subtitle = <<>>, !.ref = <<>>]

\* The branch of an article title.
TiArtBranch(w, text) ==
    [w EXCEPT !.article = text, !.article_subtitle = <<>>, !.ref = <<>>]

\* A slip: an article subtitle empties the stored marker as the titles do.
StiArtBranchResetsRef(w, text) ==
    [w EXCEPT !.article_subtitle = text, !.ref = <<>>]

\* The branch of an article subtitle.
StiArtBranch(w, text) == [w EXCEPT !.article_subtitle = text]

\* A slip: the record is made without the article subtitle.
MakeRecordWithoutSubtitle(name, w, text) ==
    [document |-> name, heading |-> w.heading, section |-> w.section,
     article |-> w.article, article_subtitle |-> <<>>,
     text |-> text, ref |-> w.ref]

\* The record appended for a body passage, from the locals as they are.
MakeRecord(name, w, text) ==
    [document |-> name, heading |-> w.heading, section |-> w.section,
     article |-> w.article, article_subtitle |-> w.article_subtitle,
     text |-> text, ref |-> w.ref]

\* text.replace(ref, "").strip() on the starting-marker path
StripMarker(text, marker) == Strip(Replace(text, marker, <<>>))

\* A slip: the flag is not cleared after the record.
AppendRecordKeepsFlag(w, text, name) ==
    [w EXCEPT !.records = Append(w.records, MakeRecord(name, w, text))]

\* records.append(...) with the locals as they are, then prev_marker = False
AppendRecord(w, text, name) ==
    [w EXCEPT !.records = Append(w.records, MakeRecord(name, w, text)),
              !.prev_marker = FALSE]

\* A slip: an isolated marker after another one is added to the stored one.
IsolatedBranchStacks(w, text, name) ==
    [w EXCEPT !.ref = IF w.prev_marker THEN w.ref \o text ELSE text,
              !.prev_marker = TRUE]

\* A slip: no continue, so the isolated marker gets a record of its own.
IsolatedBranchFallsThrough(w, text, name) ==
    AppendRecord([w EXCEPT !.ref = text], text, name)

\* The body passage is an isolated marker: it is kept as ref, the flag is
\* set, and the loop continues with the next passage.
IsolatedBranch(w, text, name) == [w EXCEPT !.ref = text, !.prev_marker = TRUE]

\* A slip: a pending marker is handed on before the passage's own marker
\* is looked for.
BodyBranchPendingFirst(w, text, name) ==
    IF IsolatedMarkerMatch(text) THEN IsolatedBranch(w, text, name)
    ELSE IF w.prev_marker THEN AppendRecord(w, text, name)
    ELSE LET m == StartingMarkerMatch(text)
             marker == Slice(text, 1, m)
         IN  IF m >= 0
             THEN AppendRecord([w EXCEPT !.ref = marker],
                               StripMarker(text, marker), name)
             ELSE AppendRecord([w EXCEPT !.ref = <<>>], text, name)

\* The branch of a body passage (class normal / oj-normal).
BodyBranch(w, text, name) ==
    IF IsolatedMarkerMatch(text) THEN IsolatedBranch(w, text, name)
    ELSE LET m == StartingMarkerMatch(text)
             marker == Slice(text, 1, m)
         IN  IF m >= 0
             THEN AppendRecord([w EXCEPT !.ref = marker],
                               StripMarker(text, marker), name)
             ELSE IF ~w.prev_marker
             THEN AppendRecord([w EXCEPT !.ref = <<>>], text, name)
             ELSE AppendRecord(w, text, name)

\* The two if statements that dispatch on the passage's first class.
Dispatch(w, c, text, name) ==
    LET w1 == IF ClassStartsWith(c, "doc-ti") \/ ClassStartsWith(c, "oj-doc-ti")
              THEN DocTiBranch(w, text)
              ELSE w
    IN  IF ClassStartsWith(c, "ti-section") \/ ClassStartsWith(c, "oj-ti-section")
        THEN TiSectionBranch(w1, text)
        ELSE IF c \in {"ti-art", "oj-ti-art"} THEN TiArtBranch(w1, text)
        ELSE IF c \in {"sti-art", "oj-sti-art"} THEN StiArtBranch(w1, text)
        ELSE IF IsBodyClass(c) THEN BodyBranch(w1, text, name)
        ELSE w1

\* The exception one iteration of the main loop raises on tag ("": none).
LoopRaises(tag) ==
    IF tag.class.kind = "absent" THEN "KeyError"
    ELSE IF ~ClassIsList(tag) THEN "AssertionError"
    ELSE IF tag.class.items = <<>> THEN "IndexError"
    ELSE ""

\* What one iteration prints: the passage's text and its class list, when
\* the list does not hold exactly one class.
LoopPrints(tag, name) ==
    IF Len(tag.class.items) # 1
    THEN <<[doc |-> name, passage |-> tag.text, classes |-> tag.class.items]>>
    ELSE <<>>

\* A slip: skipping an ignored passage forgets the pending marker.
LoopBodyIgnoredClearsFlag(w, tag, name) ==
    IF Class0(tag) \in css_classes_to_ignore THEN [w EXCEPT !.prev_marker = FALSE]
    ELSE Dispatch(w, Class0(tag), NormText(tag), name)

\* The locals after one iteration of the main loop on tag, which does not
\* raise.
LoopBody(w, tag, name) ==
    IF Class0(tag) \in css_classes_to_ignore THEN w
    ELSE Dispatch(w, Class0(tag), NormText(tag), name)

\* ------------------------------------------------- the walker's pre-scan

\* The exception the pre-scan's tag["class"][0] raises on tag ("": none).
PreScanRaises(tag) ==
    IF tag.class.kind = "absent" THEN "KeyError"
    ELSE IF tag.class.items = <<>> THEN "IndexError"
    ELSE ""

\* The pre-scan's test: the loop breaks on this passage.
PreScanBreaks(tag) == IsBodyClass(Class0(tag))

\* Where the main loop starts once the pre-scan has run through the whole
\* list without a break: html_passages[i:], with i as the last iteration
\* left it.
StartAfterScan(last) == last

\* ---------------------------------------------- _parse_html_passages

\* The frame of the call: its locals, where it is, what it printed.
Frame ==
    [pc |-> pc, i |-> i, pos |-> pos, error |-> error, stdout |-> stdout,
     origin |-> origin,
     heading |-> heading, section |-> section, article |-> article,
     article_subtitle |-> article_subtitle, ref |-> ref,
     prev_marker |-> prev_marker, records |-> records]

\* The frame when the call is entered, having printed `out` so far.
EnterFrame(out) ==
    [pc |-> "prescan", i |-> 0, pos |-> 1, error |-> "", stdout |-> out,
     origin |-> <<>>,
     heading |-> FreshLocals.heading, section |-> FreshLocals.section,
     article |-> FreshLocals.article,
     article_subtitle |-> FreshLocals.article_subtitle,
     ref |-> FreshLocals.ref, prev_marker |-> FreshLocals.prev_marker,
     records |-> FreshLocals.records]

Raise(f, exc) == [f EXCEPT !.pc = "raised", !.error = exc]

\* One iteration of the pre-scan on the passage at f.pos.
PreScanStep(f, tag) ==
    LET g == [f EXCEPT !.i = f.pos]
    IN  IF PreScanRaises(tag) # "" THEN Raise(g, PreScanRaises(tag))
        ELSE IF PreScanBreaks(tag) THEN [g EXCEPT !.pc = "loop"]
        ELSE [g EXCEPT !.pos = f.pos + 1]

\* One iteration of the main loop on the passage at f.pos.
LoopStep(f, tag, name) ==
    IF LoopRaises(tag) \in {"KeyError", "AssertionError"}
    THEN Raise(f, LoopRaises(tag))
    ELSE LET g == [f EXCEPT !.stdout = f.stdout \o LoopPrints(tag, name)]
         IN  IF LoopRaises(tag) # "" THEN Raise(g, LoopRaises(tag))
             ELSE LET h == LoopBody(g, tag, name)
                  IN  [h EXCEPT !.pos = f.pos + 1,
                                !.origin = IF Len(h.records) > Len(f.records)
                                           THEN Append(f.origin, f.pos)
                                           ELSE f.origin]

\* One iteration of the loop that is running.
Step(f, tag, name) ==
    IF f.pc = "prescan" THEN PreScanStep(f, tag) ELSE LoopStep(f, tag, name)

\* The loop that is running finds the list at its end: the pre-scan hands
\* over to the main loop (html_passages[i:] with an unbound i raises), the
\* main loop returns the records.
EndStep(f) ==
    IF f.pc = "prescan"
    THEN IF f.i = 0 THEN Raise(f, "UnboundLocalError")
         ELSE [f EXCEPT !.pc = "loop", !.pos = StartAfterScan(f.i)]
    ELSE [f EXCEPT !.pc = "returned"]

\* The call from frame f to its end.
RECURSIVE RunCall(_, _, _)
RunCall(f, passages, name) ==
    IF f.pc \notin {"prescan", "loop"} THEN f
    ELSE IF f.pos <= Len(passages)
    THEN RunCall(Step(f, passages[f.pos], name), passages, name)
    ELSE RunCall(EndStep(f), passages, name)

SetFrame(f) ==
    /\ pc' = f.pc
    /\ i' = f.i
    /\ pos' = f.pos
    /\ error' = f.error
    /\ stdout' = f.stdout
    /\ origin' = f.origin
    /\ heading' = f.heading
    /\ section' = f.section
    /\ article' = f.article
    /\ article_subtitle' = f.article_subtitle
    /\ ref' = f.ref
    /\ prev_marker' = f.prev_marker
    /\ records' = f.records

\* --------------------------------------------------------------- bounds

\* The passages of one document (Spec), the documents of one batch
\* (SpecBatch), the pieces of one typed text (SpecText).
MaxPassages == 4
MaxDocs == 2
MaxPieces == 4

\* ------------------------------------------------------------ the inputs

\* The passages a document is drawn from in Spec.
PassagePool ==
    { P(ClassList(<<"oj-normal">>), <<"(", "1", ")">>),
      P(ClassList(<<"normal">>), <<NBSP, EMDASH, " ">>),
      P(ClassList(<<"normal">>), <<"a", ")", " ", "b", " ", "a", ")">>),
      P(ClassList(<<"oj-normal">>), <<" ", "c", NBSP, NBSP, "d">>),
      P(ClassList(<<"oj-normal", "oj-italic">>), <<"e">>),
      P(ClassList(<<"oj-doc-ti">>), <<"H">>),
      P(ClassList(<<"ti-section-1">>), <<"S">>),
      P(ClassList(<<"oj-ti-art">>), <<"A">>),
      P(ClassList(<<"ti-art", "oj-bold">>), <<"B">>),
      P(ClassList(<<"sti-art">>), <<"U">>),
      P(ClassList(<<"oj-note">>), <<"(", "2", ")">>),
      P(ClassStr(<<"n", "o", "r", "m", "a", "l">>), <<"f">>) }

\* The label of the document in Spec and SpecText.
DocLabel == "Diretiva (UE) 2018/645"

\* What EUR-Lex holds: a label, the status of the answer, the <p> elements
\* of the page.
Doc(name, status, passages) ==
    [name |-> name, status |-> status, passages |-> passages]

\* The documents a batch is drawn from in SpecBatch.
DocPool ==
    { Doc("Diretiva (UE) 2015/1535", "200",
          << P(ClassList(<<"oj-hd-date">>), <<"1", ".">>),
             P(ClassList(<<"oj-normal">>), <<"c">>),
             P(ClassList(<<"oj-doc-ti">>), <<"H">>),
             P(ClassList(<<"oj-ti-section-1">>), <<"S">>),
             P(ClassList(<<"oj-normal">>), <<"(", "1", ")">>) >>),
      Doc("Diretiva (UE) 2018/645", "200",
          << P(ClassList(<<"oj-normal">>), <<"d">>),
             P(ClassList(<<"oj-normal">>), <<NBSP>>),
             P(ClassList(<<"oj-hd-date">>), <<"g">>),
             P(ClassList(<<"oj-normal">>), <<"1", ".", " ", "e">>) >>),
      Doc("Diretiva (UE) 2019/713", "200",
          << P(ClassList(<<"oj-normal">>), <<"c">>),
             P(ClassStr(<<"n", "o", "r", "m", "a", "l">>), <<"e">>) >>),
      Doc("Diretiva (UE) 2019/770", "404", <<>>),
      Doc("Diretiva (UE) 2019/771", "200",
          << P(ClassList(<<"oj-doc-ti">>), <<"H">>) >>),
      Doc("Regulamento (UE) 2016/679", "200",
          << P(ClassList(<<"oj-normal">>), <<"c">>),
             P(ClassAbsent, <<"f">>) >>) }

\* The pieces a text is typed from in SpecText: characters, and markers as
\* the comments of the pattern lists give them.
TypePieces ==
    { <<"1">>, <<"a">>, <<"A">>, <<".">>, <<"-", "a">>, <<"(">>, <<")">>, <<" ">>,
      <<GUILLEMET>>, <<"a", ")">>, <<"1", ".">> }

\* ------------------------------------------------ the walker's actions

Running == pc \in {"prescan", "loop"}

\* The loop reads a passage of the list that no loop has read before.  The
\* loops only move forward, so the list is drawn passage by passage as it is
\* read.
ReadNext ==
    /\ Running /\ ~closed
    /\ pos = Len(html_passages) + 1
    /\ Len(html_passages) < MaxPassages
    /\ \E tag \in PassagePool :
          /\ html_passages' = Append(html_passages, tag)
          /\ SetFrame(Step(Frame, tag, document_name))
    /\ UNCHANGED <<document_name, closed, routine>>

\* The loop reads a passage that is already known: the main loop begins at
\* the passage the pre-scan stopped at.
ReadAgain ==
    /\ Running
    /\ pos <= Len(html_passages)
    /\ SetFrame(Step(Frame, html_passages[pos], document_name))
    /\ UNCHANGED <<document_name, html_passages, closed, routine>>

\* The loop that is running finds the list at its end.
ListEnds ==
    /\ Running
    /\ pos = Len(html_passages) + 1
    /\ closed' = TRUE
    /\ SetFrame(EndStep(Frame))
    /\ UNCHANGED <<document_name, html_passages, routine>>

\* Spec: one call of _parse_html_passages on a document of up to
\* MaxPassages passages.
Init ==
    /\ documents_names = <<>> /\ web = <<>> /\ rpc = "idle" /\ doc_i = 0
    /\ dfs_list = <<>> /\ df = <<>>
    /\ document_name = DocLabel
    /\ html_passages = <<>>
    /\ closed = FALSE
    /\ pc = "prescan"
    /\ i = 0
    /\ pos = 1
    /\ heading = <<>> /\ section = <<>> /\ article = <<>>
    /\ article_subtitle = <<>> /\ ref = <<>>
    /\ prev_marker = FALSE
    /\ records = <<>>
    /\ stdout = <<>>
    /\ error = ""
    /\ origin = <<>>

Next == ReadNext \/ ReadAgain \/ ListEnds

Spec == Init /\ [][Next]_vars

\* ------------------------------------------------------------ SpecText

\* One body passage whose text is typed piece by piece, then parsed by one
\* call of _parse_html_passages.
InitText ==
    /\ documents_names = <<>> /\ web = <<>> /\ rpc = "idle" /\ doc_i = 0
    /\ dfs_list = <<>> /\ df = <<>>
    /\ document_name = DocLabel
    /\ html_passages = <<P(ClassList(<<"oj-normal">>), <<>>)>>
    /\ closed = TRUE
    /\ pc = "typing"
    /\ i = 0
    /\ pos = 0
    /\ heading = <<>> /\ section = <<>> /\ article = <<>>
    /\ article_subtitle = <<>> /\ ref = <<>>
    /\ prev_marker = FALSE
    /\ records = <<>>
    /\ stdout = <<>>
    /\ error = ""
    /\ origin = <<>>

\* pos counts the pieces typed so far.
TypePiece ==
    /\ pc = "typing"
    /\ pos < MaxPieces
    /\ \E piece \in TypePieces :
          html_passages' =
              <<P(html_passages[1].class, html_passages[1].text \o piece)>>
    /\ pos' = pos + 1
    /\ UNCHANGED <<document_name, closed, pc, i, walker, stdout, error, origin, routine>>

ParseTyped ==
    /\ pc = "typing"
    /\ SetFrame(RunCall(EnterFrame(stdout), html_passages, document_name))
    /\ UNCHANGED <<document_name, html_passages, closed, routine>>

NextText == TypePiece \/ ParseTyped

SpecText == InitText /\ [][NextText]_vars

\* ----------------------------------------------------------- SpecBatch

\* run_routine's filter: the records whose text and ref are both empty are
\* dropped.
RECURSIVE DropBlank(_)
DropBlank(rs) ==
    IF rs = <<>> THEN <<>>
    ELSE IF Head(rs).text = <<>> /\ Head(rs).ref = <<>>
         THEN DropBlank(Tail(rs))
         ELSE <<Head(rs)>> \o DropBlank(Tail(rs))

\* pd.concat(dfs_list) and the two reset_index calls: the rows of all the
\* frames in order, each with its index in its own frame (text_doc_id) and
\* its index in the whole (text_id), both counted from 0.
RECURSIVE Concat(_, _)
Concat(dfs, done) ==
    IF dfs = <<>> THEN <<>>
    ELSE [n \in 1..Len(Head(dfs)) |->
             [text_id |-> done + n - 1, text_doc_id |-> n - 1,
              row |-> Head(dfs)[n]]]
         \o Concat(Tail(dfs), done + Len(Head(dfs)))

\* A batch of up to MaxDocs documents, each with what EUR-Lex answers.
InitBatch ==
    /\ \E n \in 0..MaxDocs : \E batch \in [1..n -> DocPool] :
          /\ documents_names = [k \in 1..n |-> batch[k].name]
          /\ web = [k \in 1..n |->
                       [status |-> batch[k].status, passages |-> batch[k].passages]]
    /\ rpc = "run" /\ doc_i = 1
    /\ dfs_list = <<>> /\ df = <<>>
    /\ document_name = ""
    /\ html_passages = <<>>
    /\ closed = TRUE
    /\ pc = "none"
    /\ i = 0
    /\ pos = 1
    /\ heading = <<>> /\ section = <<>> /\ article = <<>>
    /\ article_subtitle = <<>> /\ ref = <<>>
    /\ prev_marker = FALSE
    /\ records = <<>>
    /\ stdout = <<>>
    /\ error = ""
    /\ origin = <<>>

\* The loop's requests.get and its assert; on status 200 the <p> elements
\* are found and _parse_html_passages is entered.
Fetch ==
    /\ rpc = "run" /\ pc = "none"
    /\ doc_i <= Len(documents_names)
    /\ IF web[doc_i].status # "200"
       THEN /\ rpc' = "raised"
            /\ error' = "AssertionError"
            /\ UNCHANGED <<document_name, html_passages, pc, i, pos, walker,
                           stdout, origin>>
       ELSE /\ rpc' = rpc
            /\ document_name' = documents_names[doc_i]
            /\ html_passages' = web[doc_i].passages
            /\ SetFrame(EnterFrame(stdout))
    /\ UNCHANGED <<documents_names, web, doc_i, dfs_list, df, closed>>

\* _parse_html_passages returned: the frame of the records, without the
\* blank ones, joins dfs_list.  A frame built from no record has no column
\* text, and df_.text raises.
Collect ==
    /\ rpc = "run" /\ pc = "returned"
    /\ IF records = <<>>
       THEN /\ rpc' = "raised"
            /\ error' = "AttributeError"
            /\ UNCHANGED <<dfs_list, doc_i, pc>>
       ELSE /\ rpc' = rpc
            /\ error' = error
            /\ dfs_list' = Append(dfs_list, DropBlank(records))
            /\ doc_i' = doc_i + 1
            /\ pc' = "none"
    /\ UNCHANGED <<documents_names, web, df, document_name, html_passages,
                   closed, i, pos, walker, stdout, origin>>

\* _parse_html_passages raised: nothing in run_routine catches it.
Propagate ==
    /\ rpc = "run" /\ pc = "raised"
    /\ rpc' = "raised"
    /\ UNCHANGED <<documents_names, web, doc_i, dfs_list, df, call>>

\* After the loop: pd.concat (which raises on an empty list) and the
\* return.
Return ==
    /\ rpc = "run" /\ pc = "none"
    /\ doc_i > Len(documents_names)
    /\ IF dfs_list = <<>>
       THEN rpc' = "raised" /\ error' = "ValueError" /\ df' = df
       ELSE rpc' = "returned" /\ error' = error /\ df' = Concat(dfs_list, 0)
    /\ UNCHANGED <<documents_names, web, doc_i, dfs_list, document_name,
                   html_passages, closed, pc, i, pos, walker, stdout, origin>>

NextBatch == Fetch \/ ReadAgain \/ ListEnds \/ Collect \/ Propagate \/ Return

SpecBatch == InitBatch /\ [][NextBatch]_vars

\* ------------------------------------------------------------ properties

\* What the Marker Classifier says of a text: an isolated marker, a marker
\* and a body, or no marker.  The answers for the texts of the pools are
\* worked out once.
MarkerKindOf(t) ==
    IF IsolatedMarkerMatch(t) THEN "isolated"
    ELSE IF StartingMarkerMatch(t) >= 0 THEN "starting"
    ELSE "none"

PoolTexts ==
    {SubNbsp(Strip(p.text)) : p \in PassagePool}
    \cup UNION {{SubNbsp(Strip(d.passages[k].text)) : k \in DOMAIN d.passages} : d \in DocPool}

MarkerKindOfPoolText == [t \in PoolTexts |-> MarkerKindOf(t)]

MarkerKind(t) ==
    IF t \in PoolTexts THEN MarkerKindOfPoolText[t] ELSE MarkerKindOf(t)

\* What the properties say about the passage at position k of the list.
TagAt(k) == html_passages[k]
HasClasses(k) == TagAt(k).class.kind = "list" /\ TagAt(k).class.items # <<>>
FirstClass(k) == TagAt(k).class.items[1]
TextAt(k) == SubNbsp(Strip(TagAt(k).text))
IsBodyAt(k) == HasClasses(k) /\ FirstClass(k) \in {"normal", "oj-normal"}
IsIsolatedAt(k) == IsBodyAt(k) /\ MarkerKind(TextAt(k)) = "isolated"
IsStartingAt(k) == IsBodyAt(k) /\ MarkerKind(TextAt(k)) = "starting"
IsNoMarkerAt(k) == IsBodyAt(k) /\ MarkerKind(TextAt(k)) = "none"
IsDocTitleAt(k) ==
    HasClasses(k) /\ FirstClass(k) \in {"doc-ti", "oj-doc-ti", "doc-ti-1", "oj-doc-ti-1"}
IsSectionTitleAt(k) ==
    HasClasses(k) /\ FirstClass(k) \in
        {"ti-section", "oj-ti-section", "ti-section-1", "ti-section-2",
         "oj-ti-section-1", "oj-ti-section-2"}
IsArticleTitleAt(k) == HasClasses(k) /\ FirstClass(k) \in {"ti-art", "oj-ti-art"}
IsSubtitleAt(k) == HasClasses(k) /\ FirstClass(k) \in {"sti-art", "oj-sti-art"}

\* The call ended in the pre-scan (an exception of tag["class"][0], or an
\* empty list).
RaisedInPreScan ==
    /\ pc = "raised"
    /\ \/ html_passages = <<>>
       \/ i = pos /\ PreScanRaises(TagAt(pos)) # ""

\* The positions whose iteration of the main loop is complete, and those
\* the main loop has read (the one it raised on as well).
LoopDone == IF pc \in {"loop", "returned", "raised"} THEN {k \in i..(pos - 1) : k >= 1} ELSE {}
LoopRead ==
    IF pc = "raised" /\ ~RaisedInPreScan THEN LoopDone \cup {pos} ELSE LoopDone

\* The records appended for the passage at position k (their indices).
RecordsFor(k) == {n \in DOMAIN records : origin[n] = k}

\* C1: an isolated marker M directly followed by two body passages without
\* a marker: M has no record, the first follower has exactly one record,
\* whose ref is M's text, and the second has a record with an empty ref.
C1_MarkerInheritanceSingleUse ==
    \A k \in LoopDone :
        (/\ k + 2 \in LoopDone
         /\ IsIsolatedAt(k) /\ IsNoMarkerAt(k + 1) /\ IsNoMarkerAt(k + 2))
        => /\ RecordsFor(k) = {}
           /\ Cardinality(RecordsFor(k + 1)) = 1
           /\ \A n \in RecordsFor(k + 1) : records[n].ref = TextAt(k)
           /\ RecordsFor(k + 2) # {}
           /\ \A n \in RecordsFor(k + 2) : records[n].ref = <<>>

C1_Witness ==
    /\ pc = "returned"
    /\ \E k \in LoopDone :
          /\ k + 2 \in LoopDone
          /\ IsIsolatedAt(k) /\ IsNoMarkerAt(k + 1) /\ IsNoMarkerAt(k + 2)
          /\ \E n \in RecordsFor(k + 1) : records[n].ref = TextAt(k) /\ records[n].ref # <<>>

\* The positions before k that hold a document title.
DocTitlesBefore(k) == {d \in 1..(k - 1) : IsDocTitleAt(d)}

\* Value v of a record appended for position k is empty, or the text of a
\* title (one of the positions `titles`) that the main loop processed before
\* k and after every document title before k.
FromTitleSince(v, k, titles) ==
    \/ v = <<>>
    \/ \E j \in LoopDone \cap titles :
          /\ j < k
          /\ \A d \in DocTitlesBefore(k) : d < j
          /\ TextAt(j) = v

\* C2: the section, article and article_subtitle of every record are empty
\* or come from a title of their level processed after the last document
\* title before the record's passage.
C2_NoHoldoverAcrossHeading ==
    \A n \in DOMAIN records :
        LET k == origin[n]
            all == 1..Len(html_passages)
        IN  /\ FromTitleSince(records[n].section, k, {j \in all : IsSectionTitleAt(j)})
            /\ FromTitleSince(records[n].article, k, {j \in all : IsArticleTitleAt(j)})
            /\ FromTitleSince(records[n].article_subtitle, k, {j \in all : IsSubtitleAt(j)})

C2_Witness ==
    \E n \in DOMAIN records :
        /\ records[n].heading # <<>>
        /\ records[n].section = <<>>
        /\ \E j \in LoopDone : IsSectionTitleAt(j) /\ j < origin[n]
        /\ \E d \in LoopDone : IsDocTitleAt(d) /\ d < origin[n]

\* The positions from the first body passage on that hold a body passage
\* which is not an isolated marker.
FirstBody == {k \in 1..Len(html_passages) : IsBodyAt(k) /\ \A j \in 1..(k - 1) : ~IsBodyAt(j)}
Emitting(k) == IsBodyAt(k) /\ ~IsIsolatedAt(k)

\* C3: the records are those of the body passages from the first one on
\* that are not isolated markers, one each, in the order of the passages.
C3_OneRecordPerBodyInOrder ==
    /\ Len(origin) = Len(records)
    /\ \A n \in DOMAIN records :
          /\ origin[n] \in LoopDone
          /\ Emitting(origin[n])
          /\ \A f \in FirstBody : f <= origin[n]
          /\ records[n].document = document_name
    /\ \A k \in LoopDone : Cardinality(RecordsFor(k)) = IF Emitting(k) THEN 1 ELSE 0
    /\ \A m, n \in DOMAIN records : m < n => origin[m] < origin[n]
    /\ pc \in {"loop", "returned"} => \A f \in FirstBody : i = f

C3_Witness ==
    /\ pc = "returned"
    /\ Len(records) >= 2
    /\ \E k \in LoopDone : IsIsolatedAt(k)
    /\ \E k \in 1..Len(html_passages) : k \notin LoopDone

\* C4: a body passage that begins with a starting marker and is not an
\* isolated marker gets the matched prefix as ref, and as text its own text
\* without that leading prefix, trimmed: what follows the prefix is kept,
\* later occurrences of the marker included.
C4_OnlyLeadingMarkerStripped ==
    \A n \in DOMAIN records :
        LET t == TextAt(origin[n])
            m == StartingMarkerMatch(t)
        IN  (~IsolatedMarkerMatch(t) /\ m >= 0)
            => /\ records[n].ref = Slice(t, 1, m)
               /\ records[n].text = Strip(Slice(t, m + 1, Len(t)))

\* C5: the text of a record made on the starting-marker path does not
\* begin with the record's ref.
C5_TextNeverBeginsWithRef ==
    \A n \in DOMAIN records :
        LET t == TextAt(origin[n])
        IN  (~IsolatedMarkerMatch(t) /\ StartingMarkerMatch(t) >= 0
             /\ records[n].ref # <<>>)
            => ~StartsWith(records[n].text, records[n].ref)

\* C6: when run_routine ends on the failure of one document, every other
\* document of the batch has been processed and the records of the
\* processed documents have been returned.
C6_FailureIsolation ==
    (rpc = "raised" /\ doc_i <= Len(documents_names))
    => /\ \A k \in 1..Len(documents_names) : k # doc_i => k <= Len(dfs_list)
       /\ df = Concat(dfs_list, 0)

\* C7: once the main loop has read a passage whose class attribute is not a
\* list, the call has ended with an exception and the caller of run_routine
\* gets no record of the document: nothing joins dfs_list for it and
\* nothing is returned.
C7_NoPartialEmission ==
    (\E k \in LoopRead : TagAt(k).class.kind # "list")
    => /\ pc = "raised"
       /\ error \in {"AssertionError", "KeyError"}
       /\ rpc # "returned"
       /\ df = <<>>
       /\ Len(dfs_list) = doc_i - 1

C7_Witness ==
    /\ rpc = "raised"
    /\ pc = "raised"
    /\ error = "AssertionError"
    /\ records # <<>>
    /\ dfs_list # <<>>
    /\ \E k \in LoopRead : TagAt(k).class.kind = "str"

\* The passage with only the first of its classes.
FirstClassOnly(tag) == P(ClassList(<<Head(tag.class.items)>>), tag.text)

IsMultiClass(tag) == tag.class.kind = "list" /\ Len(tag.class.items) > 1

\* C8: an iteration of the main loop on a passage with several classes
\* does not raise, prints the passage with its class list, and leaves the
\* locals and the records as the iteration on the same passage with only
\* its first class would.
C8_MultiClassAsFirstClass ==
    [][(/\ pc = "loop"
        /\ pos <= Len(html_passages')
        /\ IsMultiClass(html_passages'[pos]))
       => LET tag == html_passages'[pos]
              g == LoopStep(Frame, FirstClassOnly(tag), document_name)
          IN  /\ pc' = g.pc /\ pc' = "loop"
              /\ pos' = g.pos
              /\ heading' = g.heading
              /\ section' = g.section
              /\ article' = g.article
              /\ article_subtitle' = g.article_subtitle
              /\ ref' = g.ref
              /\ prev_marker' = g.prev_marker
              /\ records' = g.records
              /\ stdout' = Append(stdout, [doc |-> document_name,
                                           passage |-> tag.text,
                                           classes |-> tag.class.items])]_vars

C8_Witness ==
    /\ stdout # <<>>
    /\ \E n \in DOMAIN records :
          /\ IsMultiClass(TagAt(origin[n]))
          /\ records[n].ref # <<>>
    /\ \E k \in LoopDone : IsMultiClass(TagAt(k)) /\ IsArticleTitleAt(k) /\ article = TextAt(k)

\* C9: every call of _parse_html_passages begins with empty locals, and
\* two documents of a batch with the same label and the same passages get
\* the same records, whatever was processed before them.
C9_DocumentsIndependent ==
    /\ (pc = "prescan" /\ i = 0 /\ pos = 1)
       => /\ heading = <<>> /\ section = <<>> /\ article = <<>>
          /\ article_subtitle = <<>> /\ ref = <<>>
          /\ prev_marker = FALSE /\ records = <<>>
    /\ \A j, k \in DOMAIN dfs_list :
          (documents_names[j] = documents_names[k] /\ web[j] = web[k])
          => dfs_list[j] = dfs_list[k]

C9_Witness ==
    /\ rpc = "returned"
    /\ Len(dfs_list) = 2
    /\ documents_names[1] = documents_names[2]
    /\ dfs_list[1] # <<>>
    /\ heading # <<>> /\ prev_marker

\* C10: the main loop reads no passage that lies before the first body
\* passage; when the list holds no body passage it reads none.
C10_PreScanDiscardsLeadingBlocks ==
    \A k \in LoopRead : \E j \in 1..k : IsBodyAt(j)

\* The passage an iteration of the main loop is about to process, in a step
\* of the main loop; its text as the loop normalises it.
StepTag == html_passages'[pos]
StepText == SubNbsp(Strip(StepTag.text))

\* The step is an iteration of the main loop on a passage whose first class
\* is one of `classes`.
LoopStepOn(classes) ==
    /\ pc = "loop"
    /\ pos <= Len(html_passages')
    /\ StepTag.class.kind = "list"
    /\ StepTag.class.items # <<>>
    /\ StepTag.class.items[1] \in classes

DocTitleClasses == {"doc-ti", "oj-doc-ti", "doc-ti-1", "oj-doc-ti-1"}
SectionTitleClasses ==
    {"ti-section", "oj-ti-section", "ti-section-1", "ti-section-2",
     "oj-ti-section-1", "oj-ti-section-2"}
ArticleTitleClasses == {"ti-art", "oj-ti-art"}
SubtitleClasses == {"sti-art", "oj-sti-art"}
BodyClasses == {"normal", "oj-normal"}
IgnorableClasses == {"signatory", "note", "oj-signatory", "oj-note"}

\* C11: the reset law of one step.  A document title sets heading and
\* empties section, article and article_subtitle; a section title sets
\* section, empties article and article_subtitle and keeps heading; an
\* article title sets article, empties article_subtitle and keeps heading
\* and section; an article subtitle sets article_subtitle and changes
\* nothing else.
C11_ResetLawPerStep ==
    [][/\ LoopStepOn(DocTitleClasses)
          => /\ heading' = StepText
             /\ section' = <<>> /\ article' = <<>> /\ article_subtitle' = <<>>
       /\ LoopStepOn(SectionTitleClasses)
          => /\ section' = StepText
             /\ article' = <<>> /\ article_subtitle' = <<>>
             /\ heading' = heading
       /\ LoopStepOn(ArticleTitleClasses)
          => /\ article' = StepText
             /\ article_subtitle' = <<>>
             /\ heading' = heading /\ section' = section
       /\ LoopStepOn(SubtitleClasses)
          => /\ article_subtitle' = StepText
             /\ UNCHANGED <<heading, section, article, ref, prev_marker, records>>
      ]_vars

C11_Witness ==
    /\ pc = "loop"
    /\ heading # <<>> /\ section # <<>> /\ article_subtitle = <<>>
    /\ pos - 1 \in LoopDone /\ IsSectionTitleAt(pos - 1)
    /\ \E j, k \in LoopDone :
          j < k /\ k < pos - 1 /\ IsDocTitleAt(j) /\ IsSubtitleAt(k)

\* C12: after a document title, a section title or an article title has
\* been processed the stored marker is empty and the pending-marker flag is
\* false, and the flag is true before a passage is processed only if the
\* passage just before it was an isolated marker.
C12_TitlesResetPendingReference ==
    (pc = "loop" /\ pos - 1 \in LoopDone)
    => /\ (IsDocTitleAt(pos - 1) \/ IsSectionTitleAt(pos - 1) \/ IsArticleTitleAt(pos - 1))
          => (ref = <<>> /\ prev_marker = FALSE)
       /\ prev_marker => IsIsolatedAt(pos - 1)

\* The passage has exactly one class, an ignorable one.
IsIgnorableTag(tag) ==
    /\ tag.class.kind = "list"
    /\ Len(tag.class.items) = 1
    /\ tag.class.items[1] \in IgnorableClasses

IsIgnorableAt(k) == IsIgnorableTag(TagAt(k))

\* The list without its ignorable passages that lie after the first body
\* passage.
WithoutIgnorable(passages) ==
    LET body(k) == /\ passages[k].class.kind = "list"
                   /\ passages[k].class.items # <<>>
                   /\ passages[k].class.items[1] \in BodyClasses
        keep(k) == ~(IsIgnorableTag(passages[k]) /\ \E j \in 1..(k - 1) : body(j))
        F[k \in 0..Len(passages)] ==
            IF k = 0 THEN <<>>
            ELSE IF keep(k) THEN Append(F[k - 1], passages[k]) ELSE F[k - 1]
    IN  F[Len(passages)]

\* C13: an iteration on an ignorable passage leaves the context, the stored
\* marker, the flag and the records as they are, and the records the call
\* returns are those it returns for the list without the ignorable passages
\* that lie after the first body passage.
C13_IgnorableBlocksAreInert ==
    /\ [][LoopStepOn(IgnorableClasses)
          => UNCHANGED <<heading, section, article, article_subtitle, ref,
                         prev_marker, records>>]_vars
    /\ [](pc = "returned"
          => records = RunCall(EnterFrame(<<>>), WithoutIgnorable(html_passages),
                               document_name).records)

C13_Witness ==
    /\ pc = "returned"
    /\ \E k \in LoopDone :
          /\ k - 1 \in LoopDone /\ k + 1 \in LoopDone
          /\ IsIsolatedAt(k - 1) /\ IsIgnorableAt(k) /\ IsNoMarkerAt(k + 1)
          /\ \E n \in RecordsFor(k + 1) : records[n].ref = TextAt(k - 1)

\* C14: an iteration on a body passage leaves heading, section, article and
\* article_subtitle as they are, appends at most one record and changes no
\* earlier one, and the record it appends carries the four values as they
\* were before the iteration.
C14_BodyStepKeepsContext ==
    [][LoopStepOn(BodyClasses)
       => /\ UNCHANGED <<heading, section, article, article_subtitle>>
          /\ Len(records') \in {Len(records), Len(records) + 1}
          /\ SubSeq(records', 1, Len(records)) = records
          /\ \A n \in DOMAIN records' :
                n > Len(records)
                => /\ records'[n].heading = heading
                   /\ records'[n].section = section
                   /\ records'[n].article = article
                   /\ records'[n].article_subtitle = article_subtitle
      ]_vars

C14_Witness ==
    /\ pc = "loop"
    /\ pos - 1 \in LoopDone
    /\ IsBodyAt(pos - 1)
    /\ RecordsFor(pos - 1) # {}
    /\ heading # <<>> /\ article_subtitle # <<>>
    /\ \A n \in RecordsFor(pos - 1) :
          records[n].heading = heading /\ records[n].article_subtitle = article_subtitle

\* C15: of two isolated markers in a row neither has a record, and a body
\* passage without a marker right after them has one record, whose ref is
\* the text of the second marker alone.
C15_LastIsolatedMarkerWins ==
    \A k \in LoopDone :
        (k + 1 \in LoopDone /\ IsIsolatedAt(k) /\ IsIsolatedAt(k + 1))
        => /\ RecordsFor(k) = {} /\ RecordsFor(k + 1) = {}
           /\ (k + 2 \in LoopDone /\ IsNoMarkerAt(k + 2))
              => /\ Cardinality(RecordsFor(k + 2)) = 1
                 /\ \A n \in RecordsFor(k + 2) : records[n].ref = TextAt(k + 1)

C15_Witness ==
    /\ pc = "returned"
    /\ \E k \in LoopDone :
          /\ k + 2 \in LoopDone
          /\ IsIsolatedAt(k) /\ IsIsolatedAt(k + 1) /\ IsNoMarkerAt(k + 2)
          /\ TextAt(k) # TextAt(k + 1)
          /\ \E n \in RecordsFor(k + 2) : records[n].ref = TextAt(k + 1)

\* The marker a body passage begins with: the prefix the starting-marker
\* pattern matches.
StartingMarkerAt(k) == Slice(TextAt(k), 1, StartingMarkerMatch(TextAt(k)))

\* C16: a body passage with a starting marker right after an isolated
\* marker has one record, whose ref is its own marker; the isolated marker
\* has no record, the flag is false once the passage is processed, and a
\* body passage without a marker that follows gets an empty ref, not the
\* isolated marker.
C16_OwnMarkerBeatsPending ==
    \A k \in LoopDone :
        (k + 1 \in LoopDone /\ IsIsolatedAt(k) /\ IsStartingAt(k + 1))
        => /\ RecordsFor(k) = {}
           /\ Cardinality(RecordsFor(k + 1)) = 1
           /\ \A n \in RecordsFor(k + 1) : records[n].ref = StartingMarkerAt(k + 1)
           /\ pos = k + 2 => prev_marker = FALSE
           /\ (k + 2 \in LoopDone /\ IsNoMarkerAt(k + 2))
              => \A n \in RecordsFor(k + 2) : records[n].ref = <<>>

C16_Witness ==
    /\ pc = "loop"
    /\ pos - 2 \in LoopDone
    /\ IsIsolatedAt(pos - 2) /\ IsStartingAt(pos - 1)
    /\ TextAt(pos - 2) # StartingMarkerAt(pos - 1)
    /\ ref = StartingMarkerAt(pos - 1)
    /\ \E n \in RecordsFor(pos - 1) : records[n].ref = ref

\* The first class of the passage at k is an ignorable one.
IsSkippedAt(k) == HasClasses(k) /\ FirstClass(k) \in IgnorableClasses

\* C18: the pending-marker flag is set by an isolated marker and cleared by
\* the next record only, so it is true exactly when no record was appended
\* since the last isolated marker; a body passage without a marker that
\* comes after an isolated marker with only article subtitles and ignorable
\* passages between the two has one record, whose ref is the marker's text.
C18_PendingSurvivesSubtitlesAndIgnored ==
    /\ prev_marker = (\E k \in LoopDone :
                         /\ IsIsolatedAt(k)
                         /\ \A j \in LoopDone : j > k => ~Emitting(j))
    /\ \A k, j \in LoopDone :
          (/\ k < j
           /\ IsIsolatedAt(k) /\ IsNoMarkerAt(j)
           /\ \A m \in (k + 1)..(j - 1) : IsSubtitleAt(m) \/ IsSkippedAt(m))
          => /\ Cardinality(RecordsFor(j)) = 1
             /\ \A n \in RecordsFor(j) : records[n].ref = TextAt(k)

C18_Witness ==
    /\ pc = "returned"
    /\ \E k, j \in LoopDone :
          /\ j = k + 3
          /\ IsIsolatedAt(k) /\ IsNoMarkerAt(j)
          /\ \E m \in (k + 1)..(j - 1) : IsSubtitleAt(m)
          /\ \E m \in (k + 1)..(j - 1) : IsSkippedAt(m)
          /\ \E n \in RecordsFor(j) :
                /\ records[n].ref = TextAt(k)
                /\ records[n].article_subtitle # <<>>

\* The elements of a sequence.
Range(seq) == {seq[n] : n \in DOMAIN seq}

\* The lengths of the prefixes of t that sub-pattern n of the starting
\* markers can match, at the start of t or after a leading guillemet.
SubPatternEnds(n, t) ==
    LET sub == STARTING_MARKER_PATTERNS[n]
    IN  {e - 1 : e \in Range(MatchItems(sub, 1, t, 1))}
        \cup {e - 1 : e \in Range(MatchItems(<<One({GUILLEMET})>> \o sub, 1, t, 1))}

\* The length of the prefix the engine matches with sub-pattern n alone.
SubPatternMatch(n, t) ==
    LET sub == STARTING_MARKER_PATTERNS[n]
    IN  ReMatch(<<sub, <<One({GUILLEMET})>> \o sub>>, t)

\* The text of the typed passage as the main loop normalises it.
TypedText == SubNbsp(Strip(html_passages[1].text))

\* C17: when some starting-marker sub-pattern matches the text, the marker
\* reported is the prefix matched by the first sub-pattern of the list that
\* matches, no sub-pattern listed after it can match a longer prefix, and
\* that prefix is the ref of the record unless the text is an isolated
\* marker.
C17_PatternPriority ==
    pc = "returned"
    => LET t == TypedText
           ends == [n \in DOMAIN STARTING_MARKER_PATTERNS |-> SubPatternEnds(n, t)]
           matching == {n \in DOMAIN ends : ends[n] # {}}
       IN  matching # {}
           => LET first == CHOOSE n \in matching : \A m \in matching : n <= m
                  len == SubPatternMatch(first, t)
              IN  /\ StartingMarkerMatch(t) = len
                  /\ \A n \in matching : \A e \in ends[n] :
                        n > first => e <= len
                  /\ ~IsolatedMarkerMatch(t)
                     => /\ Len(records) = 1
                        /\ records[1].ref = Slice(t, 1, len)

C17_Witness ==
    /\ pc = "returned"
    /\ Len(records) = 1
    /\ SubPatternEnds(1, TypedText) # {}
    /\ SubPatternEnds(7, TypedText) # {}
    /\ SubPatternEnds(12, TypedText) # {}
    /\ Len(records[1].ref) = 6

====
